---- MODULE Spec2Model ----
(***************************************************************************)
(* Model of the Firebase MCP server: the FirebaseClient of                 *)
(* src/src/mcp_server_firebase/firebase_client.py (filter compiler,        *)
(* collection searches, bucket scan) and the tool layer of                 *)
(* src/src/mcp_server_firebase/server.py (global client, four tools).      *)
(*                                                                         *)
(* Python values are tagged pairs <<tag, payload>>; a Python str is a      *)
(* sequence of one-character strings, so that startswith and slicing are   *)
(* computed, not assumed.                                                  *)
(***************************************************************************)
EXTENDS Integers, Sequences, FiniteSets, TLC

VARIABLES
    collections,      \* Firestore: collection name -> sequence of documents
    blobs,            \* Storage bucket: sequence of blobs, in listing order
    firebase_client,  \* server.py global: NoClient or a FirebaseClient object
    init_pc,          \* position of the latest initialize_firebase_client call
    request,          \* the filter argument the caller passes
    last,             \* outcome of the most recent tool call
    compiled,         \* query returned by the most recent direct _apply_filters call
    calls             \* invocations in flight: each one's locals and position

vars == <<collections, blobs, firebase_client, init_pc, request, last, compiled, calls>>

----------------------------------------------------------------------------
(* Bounds of the model *)

MaxDocs == 2
MaxBlobs == 2
MaxKeys == 2
MaxCalls == 2

----------------------------------------------------------------------------
(* Python values *)

Str(s) == <<"str", s>>
List(l) == <<"list", l>>
Num(n) == <<"int", n>>
Bool(b) == <<"bool", b>>
Ts(n) == <<"datetime", n>>
None == <<"None", 0>>

IsStr(v) == v[1] = "str"
IsList(v) == v[1] = "list"
IsTs(v) == v[1] = "datetime"

\* bool(v) as Python's `if v:` computes it
Truthy(v) ==
    CASE v[1] = "None" -> FALSE
      [] v[1] = "str" -> Len(v[2]) > 0
      [] v[1] = "list" -> Len(v[2]) > 0
      [] v[1] = "int" -> v[2] # 0
      [] v[1] = "bool" -> v[2]
      [] OTHER -> TRUE

\* str.startswith on character sequences
StartsWith(s, p) == Len(s) >= Len(p) /\ SubSeq(s, 1, Len(p)) = p

\* s[2:]
DropTwo(s) == SubSeq(s, 3, Len(s))

GE == <<">", "=">>
LE == <<"<", "=">>

DigitChars == <<"0", "1", "2", "3", "4", "5", "6", "7", "8", "9">>

IsDigit(c) == \E i \in 1..Len(DigitChars) : DigitChars[i] = c

DigitVal(c) == (CHOOSE i \in 1..Len(DigitChars) : DigitChars[i] = c) - 1

RECURSIVE Number(_)
Number(s) == IF s = <<>> THEN 0 ELSE 10 * Number(SubSeq(s, 1, Len(s) - 1)) + DigitVal(s[Len(s)])

\* dateutil's parse, abstracted: a non-empty run of digits is a calendar
\* timestamp (its number); anything else raises ValueError.
parse_datetime(s) ==
    IF Len(s) > 0 /\ \A i \in 1..Len(s) : IsDigit(s[i])
    THEN [ok |-> TRUE, value |-> Ts(Number(s))]
    ELSE [ok |-> FALSE, value |-> None]

----------------------------------------------------------------------------
(* Filter mappings: an insertion-ordered dict of key -> value, or absent *)

NoFilter == [present |-> FALSE, items |-> <<>>]
Filter(items) == [present |-> TRUE, items |-> items]

\* `if filters:` is false for None and for the empty dict
FiltersTruthy(f) == f.present /\ Len(f.items) > 0

HasKey(f, k) == f.present /\ \E i \in 1..Len(f.items) : f.items[i][1] = k

\* filters.get(k, default) if filters else default
Get(f, k, default) ==
    IF FiltersTruthy(f) /\ HasKey(f, k)
    THEN f.items[CHOOSE i \in 1..Len(f.items) : f.items[i][1] = k][2]
    ELSE default

----------------------------------------------------------------------------
(* FirebaseClient._apply_filters *)

FieldFilter(field, op, value) == [field |-> field, op |-> op, value |-> value]

\* A where() that forgets the conditions already chained
Where_KeepsOnlyLast(query, clause) == [query EXCEPT !.clauses = <<clause>>]

\* A where() that puts the new condition before the ones already chained
Where_Prepends(query, clause) == [query EXCEPT !.clauses = <<clause>> \o @]

\* query.where(filter=...) returns the query with one more condition
Where(query, clause) == [query EXCEPT !.clauses = Append(@, clause)]

\* Variants of the loop body, each with one slip: the prefix sliced off by
\* `cut` characters, an unparsable date compiled to an equality on the raw
\* string, a list compiled to an equality, or a None value dropped.
ApplyOneVariant(query, field, value, cut, badDateAsEquality, listAsEquality, dropNone) ==
    IF IsStr(value) /\ (StartsWith(value[2], GE) \/ StartsWith(value[2], LE))
    THEN LET date == parse_datetime(SubSeq(value[2], cut + 1, Len(value[2])))
             op == IF StartsWith(value[2], GE) THEN ">=" ELSE "<="
         IN IF date.ok THEN Where(query, FieldFilter(field, op, date.value))
            ELSE IF badDateAsEquality THEN Where(query, FieldFilter(field, "==", value))
            ELSE query
    ELSE IF IsList(value) /\ ~listAsEquality
    THEN Where(query, FieldFilter(field, "array_contains_any", value))
    ELSE IF dropNone /\ value = None THEN query
    ELSE Where(query, FieldFilter(field, "==", value))

ApplyOne_BadDateAsEquality(query, field, value) ==
    ApplyOneVariant(query, field, value, 2, TRUE, FALSE, FALSE)

ApplyOne_SliceOne(query, field, value) ==
    ApplyOneVariant(query, field, value, 1, FALSE, FALSE, FALSE)

ApplyOne_ListAsEquality(query, field, value) ==
    ApplyOneVariant(query, field, value, 2, FALSE, TRUE, FALSE)

ApplyOne_DropsNone(query, field, value) ==
    ApplyOneVariant(query, field, value, 2, FALSE, FALSE, TRUE)

\* A loop body that looks at the field name: 'tags' always gets a membership
\* condition, whatever its value
ApplyOne_ByFieldName(query, field, value) ==
    IF field = "tags" THEN Where(query, FieldFilter(field, "array_contains_any", value))
    ELSE ApplyOneVariant(query, field, value, 2, FALSE, FALSE, FALSE)

\* One iteration of the loop over filters.items()
ApplyOne(query, field, value) ==
    IF IsStr(value) /\ StartsWith(value[2], GE)
    THEN LET date == parse_datetime(DropTwo(value[2]))
         IN IF date.ok THEN Where(query, FieldFilter(field, ">=", date.value))
            ELSE query
    ELSE IF IsStr(value) /\ StartsWith(value[2], LE)
    THEN LET date == parse_datetime(DropTwo(value[2]))
         IN IF date.ok THEN Where(query, FieldFilter(field, "<=", date.value))
            ELSE query
    ELSE IF IsList(value)
    THEN Where(query, FieldFilter(field, "array_contains_any", value))
    ELSE Where(query, FieldFilter(field, "==", value))

RECURSIVE ApplyFrom(_, _, _)
ApplyFrom(query, items, i) ==
    IF i > Len(items) THEN query
    ELSE ApplyFrom(ApplyOne(query, items[i][1], items[i][2]), items, i + 1)

\* A compiler that returns from inside the loop, after the first entry
_apply_filters_ReturnsInLoop(query, filters) ==
    IF filters.items = <<>> THEN query ELSE ApplyFrom(query, <<Head(filters.items)>>, 1)

_apply_filters(query, filters) == ApplyFrom(query, filters.items, 1)

----------------------------------------------------------------------------
(* The external stores: Firestore queries and the bucket listing *)

\* db.collection(name): a query on one collection with no condition yet
Collection(name) == [collection |-> name, clauses |-> <<>>]

\* Whether a stored document satisfies one FieldFilter condition
Matches(data, clause) ==
    /\ clause.field \in DOMAIN data
    /\ LET stored == data[clause.field]
       IN CASE clause.op = "==" -> stored = clause.value
            [] clause.op = ">=" -> IsTs(stored) /\ IsTs(clause.value) /\ stored[2] >= clause.value[2]
            [] clause.op = "<=" -> IsTs(stored) /\ IsTs(clause.value) /\ stored[2] <= clause.value[2]
            [] clause.op = "array_contains_any" ->
                   /\ IsList(stored)
                   /\ IsList(clause.value)
                   /\ \E i \in 1..Len(stored[2]) : \E j \in 1..Len(clause.value[2]) :
                          stored[2][i] = clause.value[2][j]
            [] OTHER -> FALSE

\* All conditions chained on a query hold together
MatchesAll(data, clauses) == \A i \in 1..Len(clauses) : Matches(data, clauses[i])

RECURSIVE StreamFrom(_, _, _)
StreamFrom(docs, clauses, i) ==
    IF i > Len(docs) THEN <<>>
    ELSE (IF MatchesAll(docs[i].data, clauses) THEN <<docs[i]>> ELSE <<>>)
         \o StreamFrom(docs, clauses, i + 1)

\* query.stream(): the documents of the query's collection that satisfy it,
\* in the store's iteration order
Stream(store, query) == StreamFrom(store[query.collection], query.clauses, 1)

RECURSIVE ListFrom(_, _, _)
ListFrom(bs, prefix, i) ==
    IF i > Len(bs) THEN <<>>
    ELSE (IF IsStr(prefix) => StartsWith(bs[i].name, prefix[2]) THEN <<bs[i]>> ELSE <<>>)
         \o ListFrom(bs, prefix, i + 1)

\* bucket.list_blobs(prefix=prefix): the blobs whose name starts with prefix
list_blobs(bs, prefix) == ListFrom(bs, prefix, 1)

\* Store operations, as a call records them
StreamOp(query) == [target |-> query.collection, clauses |-> query.clauses, prefix |-> None]
ListOp(prefix) == [target |-> "bucket", clauses |-> <<>>, prefix |-> prefix]

----------------------------------------------------------------------------
(* Outcomes of a call *)

NotInitialized == "RuntimeError: Firebase client not initialized"
StoreError == "Exception: store failure"
CompareError == "TypeError: '<' not supported between instances of 'NoneType' and 'datetime.datetime'"
NoError == ""

Raise(msg, ops) == [status |-> "error", error |-> msg, records |-> <<>>, store_ops |-> ops]
Return(recs, ops) == [status |-> "ok", error |-> "", records |-> recs, store_ops |-> ops]

----------------------------------------------------------------------------
(* FirebaseClient: the collection searches *)

NoHandle == "None"

\* An 'id' that gives way to a stored field of the same name
WithId_KeepsStored(doc) ==
    [f \in DOMAIN doc.data \cup {"id"} |-> IF f \in DOMAIN doc.data THEN doc.data[f] ELSE doc.id]

\* data = doc.to_dict(); data["id"] = doc.id
WithId(doc) ==
    [f \in DOMAIN doc.data \cup {"id"} |-> IF f = "id" THEN doc.id ELSE doc.data[f]]

\* The store's behaviour during one call: failAt = 0 when it answers, and
\* failAt = k when the k-th fetch from its iterator raises (k = 1: before any
\* document or blob was handed over)
NeverFails == 0

\* A loop that puts each new record first
RECURSIVE Records_NewestFirst(_, _, _, _)
Records_NewestFirst(docs, i, results, failAt) ==
    IF failAt = i THEN [error |-> StoreError, results |-> results]
    ELSE IF i > Len(docs) THEN [error |-> NoError, results |-> results]
    ELSE Records_NewestFirst(docs, i + 1, <<WithId(docs[i])>> \o results, failAt)

\* `for doc in docs:` with results.append(data); the fetch of document i comes
\* before its conversion, and a raise leaves the loop with what was built
RECURSIVE Records(_, _, _, _)
Records(docs, i, results, failAt) ==
    IF failAt = i THEN [error |-> StoreError, results |-> results]
    ELSE IF i > Len(docs) THEN [error |-> NoError, results |-> results]
    ELSE Records(docs, i + 1, Append(results, WithId(docs[i])), failAt)

\* A search that answers a store failure with the records built so far
SearchCollection_ReturnsOnError(client, store, name, filters, failAt) ==
    IF client._db = NoHandle THEN Raise(NotInitialized, <<>>)
    ELSE LET base == Collection(name)
             query == IF FiltersTruthy(filters) THEN _apply_filters(base, filters) ELSE base
             loop == Records(Stream(store, query), 1, <<>>, failAt)
         IN Return(loop.results, <<StreamOp(query)>>)

\* The body shared by search_assets, search_versions and search_comments
SearchCollection(client, store, name, filters, failAt) ==
    IF client._db = NoHandle THEN Raise(NotInitialized, <<>>)
    ELSE LET base == Collection(name)
             query == IF FiltersTruthy(filters) THEN _apply_filters(base, filters) ELSE base
             loop == Records(Stream(store, query), 1, <<>>, failAt)
         IN IF loop.error # NoError THEN Raise(loop.error, <<StreamOp(query)>>)
            ELSE Return(loop.results, <<StreamOp(query)>>)

search_assets(client, store, filters, failAt) ==
    SearchCollection(client, store, "assets", filters, failAt)

search_versions(client, store, filters, failAt) ==
    SearchCollection(client, store, "versions", filters, failAt)

search_comments(client, store, filters, failAt) ==
    SearchCollection(client, store, "comments", filters, failAt)

----------------------------------------------------------------------------
(* FirebaseClient.search_asset_files *)

RECURSIVE Digits(_)
Digits(n) == IF n < 10 THEN <<DigitChars[n + 1]>> ELSE Digits(n \div 10) \o <<DigitChars[(n % 10) + 1]>>

\* datetime.isoformat(), in the model's rendering of timestamps
isoformat(t) == Str(Digits(t[2]))

\* A record that carries the creation time as the store gives it, not rendered
file_info_RawTimestamp(blob) ==
    [name |-> Str(blob.name),
     size |-> blob.size,
     contentType |-> blob.content_type,
     uploadedAt |-> blob.time_created,
     downloadUrl |-> blob.public_url,
     etag |-> blob.etag,
     generation |-> blob.generation]

file_info(blob) ==
    [name |-> Str(blob.name),
     size |-> blob.size,
     contentType |-> blob.content_type,
     uploadedAt |-> IF blob.time_created # None THEN isoformat(blob.time_created) ELSE None,
     downloadUrl |-> blob.public_url,
     etag |-> blob.etag,
     generation |-> blob.generation]

\* A date filter whose parse failure is not caught
DateCheck_BadDateRaises(blob, uploaded_at_filter) ==
    IF Truthy(uploaded_at_filter) /\ IsStr(uploaded_at_filter)
       /\ (StartsWith(uploaded_at_filter[2], GE) \/ StartsWith(uploaded_at_filter[2], LE))
    THEN LET filter_date == parse_datetime(DropTwo(uploaded_at_filter[2]))
         IN IF ~filter_date.ok THEN "raise"
            ELSE IF blob.time_created = None THEN "raise"
            ELSE IF StartsWith(uploaded_at_filter[2], GE)
                    /\ blob.time_created[2] < filter_date.value[2] THEN "skip"
            ELSE IF StartsWith(uploaded_at_filter[2], LE)
                    /\ blob.time_created[2] > filter_date.value[2] THEN "skip"
            ELSE "keep"
    ELSE "keep"

\* The upload date filter of one loop iteration: "skip" (continue), "keep",
\* or "raise" when the comparison with the blob's creation time raises
DateCheck(blob, uploaded_at_filter) ==
    IF Truthy(uploaded_at_filter) /\ IsStr(uploaded_at_filter)
    THEN IF StartsWith(uploaded_at_filter[2], GE)
         THEN LET filter_date == parse_datetime(DropTwo(uploaded_at_filter[2]))
              IN IF ~filter_date.ok THEN "keep"
                 ELSE IF blob.time_created = None THEN "raise"
                 ELSE IF blob.time_created[2] < filter_date.value[2] THEN "skip"
                 ELSE "keep"
         ELSE IF StartsWith(uploaded_at_filter[2], LE)
         THEN LET filter_date == parse_datetime(DropTwo(uploaded_at_filter[2]))
              IN IF ~filter_date.ok THEN "keep"
                 ELSE IF blob.time_created = None THEN "raise"
                 ELSE IF blob.time_created[2] > filter_date.value[2] THEN "skip"
                 ELSE "keep"
         ELSE "keep"
    ELSE "keep"

\* A content type comparison made also when no contentType filter is given
ContentTypeSkips_NoGuard(blob, content_type_filter) ==
    blob.content_type # content_type_filter

\* The content type filter of one loop iteration: TRUE when the blob is skipped
ContentTypeSkips(blob, content_type_filter) ==
    Truthy(content_type_filter) /\ blob.content_type # content_type_filter

\* One loop iteration over a listed blob
ScanBlob(blob, content_type_filter, uploaded_at_filter) ==
    IF ContentTypeSkips(blob, content_type_filter) THEN "skip"
    ELSE DateCheck(blob, uploaded_at_filter)

\* The loop: the outcome so far, extended blob by blob; the fetch of blob i
\* comes before its checks, and a raise ends the loop with what was built
RECURSIVE ScanFrom(_, _, _, _, _, _)
ScanFrom(listed, content_type_filter, uploaded_at_filter, i, results, failAt) ==
    IF failAt = i THEN [error |-> StoreError, results |-> results]
    ELSE IF i > Len(listed) THEN [error |-> NoError, results |-> results]
    ELSE LET step == ScanBlob(listed[i], content_type_filter, uploaded_at_filter)
         IN IF step = "raise" THEN [error |-> CompareError, results |-> results]
            ELSE ScanFrom(listed, content_type_filter, uploaded_at_filter, i + 1,
                          IF step = "keep" THEN Append(results, file_info(listed[i])) ELSE results,
                          failAt)

\* A scan that never passes the caller's prefix to the listing
search_asset_files_ListsAll(client, bucket, filters, failAt) ==
    LET prefix == Str(<<>>)
        content_type_filter == Get(filters, "contentType", None)
        uploaded_at_filter == Get(filters, "uploadedAt", None)
    IN IF client._bucket = NoHandle THEN Raise(NotInitialized, <<>>)
       ELSE LET scan == ScanFrom(list_blobs(bucket, prefix), content_type_filter,
                                 uploaded_at_filter, 1, <<>>, failAt)
            IN IF scan.error # NoError THEN Raise(scan.error, <<ListOp(prefix)>>)
               ELSE Return(scan.results, <<ListOp(prefix)>>)

\* A scan that takes the content type from the 'category' key when the
\* filter has no 'contentType'
search_asset_files_ReadsCategory(client, bucket, filters, failAt) ==
    LET prefix == Get(filters, "prefix", Str(<<>>))
        content_type_filter == Get(filters, "contentType", Get(filters, "category", None))
        uploaded_at_filter == Get(filters, "uploadedAt", None)
    IN IF client._bucket = NoHandle THEN Raise(NotInitialized, <<>>)
       ELSE LET scan == ScanFrom(list_blobs(bucket, prefix), content_type_filter,
                                 uploaded_at_filter, 1, <<>>, failAt)
            IN IF scan.error # NoError THEN Raise(scan.error, <<ListOp(prefix)>>)
               ELSE Return(scan.results, <<ListOp(prefix)>>)

search_asset_files(client, bucket, filters, failAt) ==
    LET prefix == Get(filters, "prefix", Str(<<>>))
        content_type_filter == Get(filters, "contentType", None)
        uploaded_at_filter == Get(filters, "uploadedAt", None)
    IN IF client._bucket = NoHandle THEN Raise(NotInitialized, <<>>)
       ELSE LET scan == ScanFrom(list_blobs(bucket, prefix), content_type_filter,
                                 uploaded_at_filter, 1, <<>>, failAt)
            IN IF scan.error # NoError THEN Raise(scan.error, <<ListOp(prefix)>>)
               ELSE Return(scan.results, <<ListOp(prefix)>>)

----------------------------------------------------------------------------
(* server.py: the global client and the four tools *)

NoClient == [set |-> FALSE, _app |-> NoHandle, _db |-> NoHandle, _bucket |-> NoHandle]

\* FirebaseClient(credentials_path): all handles None
NewClient == [set |-> TRUE, _app |-> NoHandle, _db |-> NoHandle, _bucket |-> NoHandle]

\* get_firebase_client() raises when the global is None
ClientMissing(global) == ~global.set

tool_search_assets(global, store, filter, failAt) ==
    IF ClientMissing(global) THEN Raise(NotInitialized, <<>>)
    ELSE search_assets(global, store, filter, failAt)

\* A versions tool wired to the assets search
tool_search_versions_CallsAssets(global, store, filter, failAt) ==
    IF ClientMissing(global) THEN Raise(NotInitialized, <<>>)
    ELSE search_assets(global, store, filter, failAt)

tool_search_versions(global, store, filter, failAt) ==
    IF ClientMissing(global) THEN Raise(NotInitialized, <<>>)
    ELSE search_versions(global, store, filter, failAt)

tool_search_comments(global, store, filter, failAt) ==
    IF ClientMissing(global) THEN Raise(NotInitialized, <<>>)
    ELSE search_comments(global, store, filter, failAt)

tool_search_asset_files(global, bucket, filter, failAt) ==
    IF ClientMissing(global) THEN Raise(NotInitialized, <<>>)
    ELSE search_asset_files(global, bucket, filter, failAt)

----------------------------------------------------------------------------
(* Inputs: store contents and filter mappings *)

Png == Str(<<"p", "n", "g">>)
Jpg == Str(<<"j", "p", "g">>)

Doc1 == [id |-> Str(<<"d", "1">>),
         data |-> ("id" :> Str(<<"z">>)) @@ ("contentType" :> Png)
                  @@ ("uploadedAt" :> Ts(1)) @@ ("tags" :> List(<<"a">>))]
Doc2 == [id |-> Str(<<"d", "2">>),
         data |-> ("contentType" :> Jpg) @@ ("uploadedAt" :> Ts(2)) @@ ("tags" :> List(<<"b">>))]
Doc3 == [id |-> Str(<<"d", "3">>),
         data |-> ("contentType" :> Png) @@ ("tags" :> List(<<"a", "b">>))]

DocPool == {Doc1, Doc2, Doc3}

Blob1 == [name |-> <<"a", "/", "x">>, size |-> 10, content_type |-> Png,
          time_created |-> Ts(1), public_url |-> "url/a/x", etag |-> "e1", generation |-> 1]
Blob2 == [name |-> <<"a", "/", "y">>, size |-> 20, content_type |-> Jpg,
          time_created |-> Ts(2), public_url |-> "url/a/y", etag |-> "e2", generation |-> 2]
Blob3 == [name |-> <<"b", "/", "z">>, size |-> 30, content_type |-> Png,
          time_created |-> None, public_url |-> "url/b/z", etag |-> "e3", generation |-> 3]

BlobPool == {Blob1, Blob2, Blob3}

\* Sequences of at most n elements of S, none repeated
SeqsNoRep(S, n) ==
    UNION {{s \in [1..k -> S] : \A i, j \in 1..k : i # j => s[i] # s[j]} : k \in 0..n}

Reverse(s) == [i \in 1..Len(s) |-> s[Len(s) + 1 - i]]

\* The three collections hold different arrangements of documents
StoreOf(docs) ==
    [assets |-> docs,
     versions |-> Reverse(docs),
     comments |-> IF docs = <<>> THEN <<Doc1>> ELSE Tail(docs)]

Stores == {StoreOf(docs) : docs \in SeqsNoRep(DocPool, MaxDocs)}

Buckets == SeqsNoRep(BlobPool, MaxBlobs)

KeyOrder == <<"prefix", "contentType", "uploadedAt", "tags">>

KeyIndex(k) == CHOOSE i \in 1..Len(KeyOrder) : KeyOrder[i] = k

\* Filter entries the searches are called with
SearchItems ==
    {<<"prefix", Str(<<"a", "/">>)>>, <<"prefix", Str(<<>>)>>,
     <<"contentType", Png>>, <<"contentType", Jpg>>, <<"contentType", Str(<<>>)>>,
     <<"uploadedAt", Str(<<">", "=", "2">>)>>, <<"uploadedAt", Str(<<"<", "=", "1">>)>>,
     <<"uploadedAt", Str(<<">", "=", "x">>)>>, <<"uploadedAt", Str(<<"<", "=">>)>>,
     <<"uploadedAt", Str(<<"1">>)>>, <<"uploadedAt", Num(1)>>,
     <<"tags", List(<<"a", "c">>)>>, <<"tags", List(<<>>)>>}

SearchFilters ==
    {NoFilter} \cup
    {Filter(s) : s \in UNION {{t \in [1..k -> SearchItems] :
                                  \A i \in 1..(k - 1) : KeyIndex(t[i][1]) < KeyIndex(t[i + 1][1])}
                              : k \in 0..MaxKeys}}

\* Filter values the compiler is applied to: every shape it distinguishes
CompileValues ==
    {Str(<<">", "=", "1">>), Str(<<"<", "=", "2">>), Str(<<">", "=", "1", "2">>),
     Str(<<">", "=", "x">>), Str(<<"<", "=", "x">>), Str(<<">", "=">>), Str(<<"<", "=">>),
     Str(<<">", "1">>), Str(<<"=", ">", "1">>), Str(<<"a">>), Str(<<>>),
     List(<<>>), List(<<"a">>), List(<<"a", "b">>),
     Num(1), Num(0), Bool(TRUE), None}

CompileKeys == {"category", "tags", "uploadedAt"}

CompileFilters ==
    {Filter(s) : s \in UNION {{t \in [1..k -> CompileKeys \X CompileValues] :
                                  \A i, j \in 1..k : i # j => t[i][1] # t[j][1]}
                              : k \in 0..MaxKeys}}

----------------------------------------------------------------------------
(* State machine *)

NoCall == [op |-> "none", init_at_call |-> "never", store_failed |-> FALSE, fail_at |-> NeverFails,
           status |-> "none", error |-> "", records |-> <<>>, store_ops |-> <<>>]

NoQuery == [collection |-> "none", clauses |-> <<>>]

\* The store's behaviour during a call made in one step: it answers, or its
\* first fetch raises (stream.side_effect in tests/unit/test_core_functionality.py)
FailPoints == {NeverFails, 1}

\* What a call leaves behind: the operation, the initialization state and the
\* store's behaviour it ran under (store_failed: some fetch was set to raise),
\* and its result
Outcome(op, failAt, result) ==
    [op |-> op, init_at_call |-> init_pc, store_failed |-> (failAt # NeverFails), fail_at |-> failAt,
     status |-> result.status, error |-> result.error,
     records |-> result.records, store_ops |-> result.store_ops]

\* Invocations the host may have in flight at once
Invocations == 1..MaxCalls

\* The locals of an invocation that has not started
Idle == [pc |-> "idle", op |-> "none", filter |-> NoFilter, fail_at |-> NeverFails,
         content_type_filter |-> None, uploaded_at_filter |-> None,
         store_ops |-> <<>>, listed |-> <<>>, i |-> 0, results |-> <<>>,
         error |-> NoError, returned |-> <<>>]

NoCalls == [c \in Invocations |-> Idle]

\* The state of the module after import: no client, nothing called
Init ==
    /\ collections = StoreOf(<<Doc2>>)
    /\ blobs = <<Blob2>>
    /\ firebase_client = NoClient
    /\ init_pc = "never"
    /\ request \in {NoFilter, Filter(<<<<"contentType", Png>>>>)}
    /\ last = NoCall
    /\ compiled = NoQuery
    /\ calls = NoCalls

\* initialize_firebase_client: the global is assigned before initialize() runs
InitStart ==
    /\ init_pc \in {"never", "done", "failed"}
    /\ firebase_client' = NewClient
    /\ init_pc' = "constructed"
    /\ UNCHANGED <<collections, blobs, request, last, compiled, calls>>

\* initialize(): cred = credentials.Certificate(...)
InitCertificate ==
    /\ init_pc = "constructed"
    /\ \/ init_pc' = "cert"
       \/ init_pc' = "failed"
    /\ UNCHANGED <<collections, blobs, firebase_client, request, last, compiled, calls>>

\* initialize(): self._app = firebase_admin.initialize_app(cred)
InitApp ==
    /\ init_pc = "cert"
    /\ \/ /\ firebase_client' = [firebase_client EXCEPT !._app = "app"]
          /\ init_pc' = "app"
       \/ /\ init_pc' = "failed"
          /\ UNCHANGED firebase_client
    /\ UNCHANGED <<collections, blobs, request, last, compiled, calls>>

\* initialize(): self._db = firestore.client()
InitFirestore ==
    /\ init_pc = "app"
    /\ \/ /\ firebase_client' = [firebase_client EXCEPT !._db = "db"]
          /\ init_pc' = "db"
       \/ /\ init_pc' = "failed"
          /\ UNCHANGED firebase_client
    /\ UNCHANGED <<collections, blobs, request, last, compiled, calls>>

\* initialize(): self._bucket = storage.bucket(...)
InitBucket ==
    /\ init_pc = "db"
    /\ \/ /\ firebase_client' = [firebase_client EXCEPT !._bucket = "bucket"]
          /\ init_pc' = "done"
       \/ /\ init_pc' = "failed"
          /\ UNCHANGED firebase_client
    /\ UNCHANGED <<collections, blobs, request, last, compiled, calls>>

CallSearchAssets ==
    /\ \E failAt \in FailPoints :
           last' = Outcome("search_assets", failAt,
                           tool_search_assets(firebase_client, collections, request, failAt))
    /\ UNCHANGED <<collections, blobs, firebase_client, init_pc, request, compiled, calls>>

CallSearchVersions ==
    /\ \E failAt \in FailPoints :
           last' = Outcome("search_versions", failAt,
                           tool_search_versions(firebase_client, collections, request, failAt))
    /\ UNCHANGED <<collections, blobs, firebase_client, init_pc, request, compiled, calls>>

\* A comments search that removes what it has read
CallSearchComments_Consumes ==
    /\ \E failAt \in FailPoints :
           last' = Outcome("search_comments", failAt,
                           tool_search_comments(firebase_client, collections, request, failAt))
    /\ collections' = [collections EXCEPT !.comments = <<>>]
    /\ UNCHANGED <<blobs, firebase_client, init_pc, request, compiled, calls>>

CallSearchComments ==
    /\ \E failAt \in FailPoints :
           last' = Outcome("search_comments", failAt,
                           tool_search_comments(firebase_client, collections, request, failAt))
    /\ UNCHANGED <<collections, blobs, firebase_client, init_pc, request, compiled, calls>>

CallSearchAssetFiles ==
    /\ \E failAt \in FailPoints :
           last' = Outcome("search_asset_files", failAt,
                           tool_search_asset_files(firebase_client, blobs, request, failAt))
    /\ UNCHANGED <<collections, blobs, firebase_client, init_pc, request, compiled, calls>>

Next ==
    \/ InitStart
    \/ InitCertificate
    \/ InitApp
    \/ InitFirestore
    \/ InitBucket
    \/ CallSearchAssets
    \/ CallSearchVersions
    \/ CallSearchComments
    \/ CallSearchAssetFiles

Spec == Init /\ [][Next]_vars

\* The global client after a successful initialize_firebase_client
InitializedClient == [set |-> TRUE, _app |-> "app", _db |-> "db", _bucket |-> "bucket"]

\* The initialized server, serving tool calls with any filter against any
\* content of the collections or of the bucket (no operation reads both, so
\* one of the two varies at a time)
InitSearch ==
    /\ \/ collections \in Stores /\ blobs = <<Blob1, Blob3>>
       \/ collections = StoreOf(<<Doc1, Doc2>>) /\ blobs \in Buckets
    /\ firebase_client = InitializedClient
    /\ init_pc = "done"
    /\ request \in SearchFilters
    /\ last = NoCall
    /\ compiled = NoQuery
    /\ calls = NoCalls

NextSearch ==
    \/ CallSearchAssets
    \/ CallSearchVersions
    \/ CallSearchComments
    \/ CallSearchAssetFiles

SpecSearch == InitSearch /\ [][NextSearch]_vars

\* _apply_filters applied to a query on a collection, for any filter mapping
InitCompile ==
    /\ collections = StoreOf(<<>>)
    /\ blobs = <<>>
    /\ firebase_client = InitializedClient
    /\ init_pc = "done"
    /\ request \in CompileFilters
    /\ last = NoCall
    /\ compiled = NoQuery
    /\ calls = NoCalls

Compile ==
    /\ compiled = NoQuery
    /\ compiled' = _apply_filters(Collection("assets"), request)
    /\ UNCHANGED <<collections, blobs, firebase_client, init_pc, request, last, calls>>

NextCompile == Compile

SpecCompile == InitCompile /\ [][NextCompile]_vars

----------------------------------------------------------------------------
(* Invocations in flight at the same time: each advances by one store fetch *)
(* per step, and the steps of different invocations interleave freely.      *)

Operations == {"search_assets", "search_versions", "search_comments", "search_asset_files"}

\* Filters the concurrent callers pass
StepFilters ==
    {NoFilter,
     Filter(<<<<"uploadedAt", Str(<<"<", "=", "1">>)>>>>),
     Filter(<<<<"contentType", Jpg>>>>)}

\* self.db.collection(...) of the three collection searches
CollectionRead(op) ==
    CASE op = "search_assets" -> "assets"
      [] op = "search_versions" -> "versions"
      [] op = "search_comments" -> "comments"

\* A results list that all invocations share
ResultsOwner_Shared(c) == 1

\* `results = []` is a local of the running call: the frame that holds the
\* records invocation c builds is c's own
ResultsOwner(c) == c

\* An exception handler that hands back what was built before the failure
Fail_ReturnsBuilt(call, msg) ==
    [call EXCEPT !.pc = "returned", !.returned = call.results]

\* An exception handler that issues the store operation once more before
\* giving up
Fail_RetriesOnce(call, msg) ==
    IF Len(call.store_ops) = 1
    THEN [call EXCEPT !.store_ops = Append(@, Head(@)), !.i = 1, !.results = <<>>]
    ELSE [call EXCEPT !.pc = "raised", !.error = msg, !.returned = <<>>]

\* An exception handler that starts the loop over instead of raising
Fail_StartsOver(call, msg) ==
    [call EXCEPT !.i = 1, !.results = <<>>]

\* `except Exception as e: logger.error(...); raise` in the client method and
\* in the tool: the invocation ends with the error and no record list
Fail(call, msg) ==
    [call EXCEPT !.pc = "raised", !.error = msg, !.returned = <<>>]

\* A tool is invoked: get_firebase_client(), the handle property, the query
\* or the listing arguments, and the call that opens the store's iterator
Invoke(c) ==
    /\ calls[c].pc = "idle"
    /\ \E op \in Operations, f \in StepFilters :
           LET fresh == [Idle EXCEPT !.op = op, !.filter = f]
               base == Collection(CollectionRead(op))
               query == IF FiltersTruthy(f) THEN _apply_filters(base, f) ELSE base
               prefix == Get(f, "prefix", Str(<<>>))
           IN calls' =
                  IF ClientMissing(firebase_client) THEN [calls EXCEPT ![c] = Fail(fresh, NotInitialized)]
                  ELSE IF op = "search_asset_files"
                  THEN IF firebase_client._bucket = NoHandle
                       THEN [calls EXCEPT ![c] = Fail(fresh, NotInitialized)]
                       ELSE [calls EXCEPT
                                ![c] = [fresh EXCEPT
                                           !.pc = "iterating",
                                           !.content_type_filter = Get(f, "contentType", None),
                                           !.uploaded_at_filter = Get(f, "uploadedAt", None),
                                           !.store_ops = <<ListOp(prefix)>>,
                                           !.listed = list_blobs(blobs, prefix),
                                           !.i = 1],
                                ![ResultsOwner(c)].results = <<>>]
                  ELSE IF firebase_client._db = NoHandle
                       THEN [calls EXCEPT ![c] = Fail(fresh, NotInitialized)]
                       ELSE [calls EXCEPT
                                ![c] = [fresh EXCEPT
                                           !.pc = "iterating",
                                           !.store_ops = <<StreamOp(query)>>,
                                           !.listed = Stream(collections, query),
                                           !.i = 1],
                                ![ResultsOwner(c)].results = <<>>]
    /\ UNCHANGED <<collections, blobs, firebase_client, init_pc, request, last, compiled>>

\* One turn of `for doc in docs:` / `for blob in blobs:`: the fetch raises, or
\* finds the end (return results), or hands over the next item to process
Fetch(c) ==
    /\ calls[c].pc = "iterating"
    /\ LET call == calls[c]
           files == call.op = "search_asset_files"
       IN \/ calls' = [calls EXCEPT ![c] = Fail([call EXCEPT !.fail_at = call.i], StoreError)]
          \/ /\ call.i > Len(call.listed)
             /\ calls' = [calls EXCEPT ![c] = [call EXCEPT
                                                  !.pc = "returned",
                                                  !.returned = calls[ResultsOwner(c)].results]]
          \/ /\ call.i <= Len(call.listed)
             /\ LET item == call.listed[call.i]
                    step == IF files
                            THEN ScanBlob(item, call.content_type_filter, call.uploaded_at_filter)
                            ELSE "keep"
                IN calls' =
                       IF step = "raise" THEN [calls EXCEPT ![c] = Fail(call, CompareError)]
                       ELSE IF step = "skip" THEN [calls EXCEPT ![c].i = @ + 1]
                       ELSE [calls EXCEPT
                                ![c].i = @ + 1,
                                ![ResultsOwner(c)].results =
                                    Append(@, IF files THEN file_info(item) ELSE WithId(item))]
    /\ UNCHANGED <<collections, blobs, firebase_client, init_pc, request, last, compiled>>

\* An initialized server whose host dispatches up to MaxCalls invocations at once
InitSteps ==
    /\ collections = StoreOf(<<Doc1, Doc2>>)
    /\ blobs = <<Blob1, Blob3>>
    /\ firebase_client = InitializedClient
    /\ init_pc = "done"
    /\ request = NoFilter
    /\ last = NoCall
    /\ compiled = NoQuery
    /\ calls = NoCalls

NextSteps == \E c \in Invocations : Invoke(c) \/ Fetch(c)

SpecSteps == InitSteps /\ [][NextSteps]_vars

\* The same server when every running invocation keeps being scheduled and
\* the store answers each fetch (an item, the end, or a failure): the loops
\* run synchronously in the call, with no await and no lock
SpecStepsFair == SpecSteps /\ \A c \in Invocations : WF_vars(Fetch(c))

----------------------------------------------------------------------------
(* Helpers of the properties *)

Called == last.op # "none"

CollectionOps == {"search_assets", "search_versions", "search_comments"}

\* The collection each operation is documented to read
TargetOf(op) ==
    CASE op = "search_assets" -> "assets"
      [] op = "search_versions" -> "versions"
      [] op = "search_comments" -> "comments"

\* A '>=' or '<=' string
IsDateBound(v) == IsStr(v) /\ (StartsWith(v[2], GE) \/ StartsWith(v[2], LE))

\* A '>=' or '<=' string whose remainder is not a date
IsBadDate(v) == IsDateBound(v) /\ ~parse_datetime(DropTwo(v[2])).ok

IsGoodDate(v) == IsDateBound(v) /\ parse_datetime(DropTwo(v[2])).ok

\* The timestamp a date-bound string denotes, read off its digits
BoundOf(v) == Ts(Number(SubSeq(v[2], 3, Len(v[2]))))

ClausesOn(query, field) == {j \in 1..Len(query.clauses) : query.clauses[j].field = field}

Compiled == compiled # NoQuery

----------------------------------------------------------------------------
(* C1: a tool invoked while initialization has not completed successfully   *)
(* (never started, in progress, or failed) fails with 'Firebase client not  *)
(* initialized', issues no store operation and returns no record list.      *)

C1_NotInitializedFailsFast ==
    (Called /\ last.init_at_call # "done") =>
        /\ last.status = "error"
        /\ last.error = NotInitialized
        /\ last.store_ops = <<>>
        /\ last.records = <<>>

----------------------------------------------------------------------------
(* C2: a field whose value is '>=' or '<=' followed by something that is    *)
(* not a date gets no condition from _apply_filters, and every other field  *)
(* of the mapping still gets its condition.                                 *)

C2_BadDateClauseSkipped ==
    Compiled =>
        \A i \in 1..Len(request.items) :
            LET field == request.items[i][1]
                value == request.items[i][2]
            IN IF IsBadDate(value)
               THEN ClausesOn(compiled, field) = {}
               ELSE ClausesOn(compiled, field) # {}

C2_Witness ==
    /\ Compiled
    /\ Len(request.items) = 2
    /\ IsBadDate(request.items[1][2])
    /\ ~IsBadDate(request.items[2][2])
    /\ Len(compiled.clauses) = 1
    /\ compiled.clauses[1].field = request.items[2][1]

----------------------------------------------------------------------------
(* C4: a field whose value is neither a '>=' / '<=' string nor a list gets  *)
(* exactly one condition, an equality whose operand is the value itself.    *)

C4_EqualityForOtherValues ==
    Compiled =>
        \A i \in 1..Len(request.items) :
            LET field == request.items[i][1]
                value == request.items[i][2]
            IN (~IsDateBound(value) /\ ~IsList(value)) =>
                   /\ Cardinality(ClausesOn(compiled, field)) = 1
                   /\ \A j \in ClausesOn(compiled, field) :
                          compiled.clauses[j] = [field |-> field, op |-> "==", value |-> value]

C4_Witness ==
    /\ Compiled
    /\ Len(request.items) = 2
    /\ request.items[1][2] = None
    /\ request.items[2][2] = Str(<<">", "1">>)
    /\ compiled.clauses = <<[field |-> request.items[1][1], op |-> "==", value |-> None],
                            [field |-> request.items[2][1], op |-> "==",
                             value |-> Str(<<">", "1">>)]>>

----------------------------------------------------------------------------
(* C6: a field whose value is '>=' (resp. '<=') followed by a date gets     *)
(* exactly one condition, '>=' (resp. '<=') on the timestamp parsed from    *)
(* what follows the two-character prefix, and no equality on the raw string. *)

C6_DateBoundClause ==
    Compiled =>
        \A i \in 1..Len(request.items) :
            LET field == request.items[i][1]
                value == request.items[i][2]
            IN IsGoodDate(value) =>
                   /\ Cardinality(ClausesOn(compiled, field)) = 1
                   /\ \A j \in ClausesOn(compiled, field) :
                          /\ compiled.clauses[j].op = (IF StartsWith(value[2], GE) THEN ">=" ELSE "<=")
                          /\ compiled.clauses[j].value = BoundOf(value)
                          /\ compiled.clauses[j].value # value

C6_Witness ==
    /\ Compiled
    /\ request.items = <<<<"uploadedAt", Str(<<">", "=", "1", "2">>)>>,
                         <<"category", Str(<<"<", "=", "2">>)>>>>
    /\ compiled.clauses = <<[field |-> "uploadedAt", op |-> ">=", value |-> Ts(12)],
                            [field |-> "category", op |-> "<=", value |-> Ts(2)]>>

----------------------------------------------------------------------------
(* Helpers of the properties about results *)

TargetDocs == collections[TargetOf(last.op)]

Returned(doc) == \E i \in 1..Len(last.records) : last.records[i]["id"] = doc.id

InSeq(x, seq) == \E i \in 1..Len(seq) : seq[i] = x

\* The field holds an array sharing an element with the sequence
Intersects(data, field, seq) ==
    /\ field \in DOMAIN data
    /\ IsList(data[field])
    /\ \E i \in 1..Len(seq) : InSeq(seq[i], data[field][2])

\* What one filter entry asks of a document, as the specification words it
ItemHolds(data, field, value) ==
    IF IsBadDate(value) THEN TRUE
    ELSE /\ field \in DOMAIN data
         /\ IF IsGoodDate(value)
            THEN /\ IsTs(data[field])
                 /\ IF StartsWith(value[2], GE)
                    THEN data[field][2] >= BoundOf(value)[2]
                    ELSE data[field][2] <= BoundOf(value)[2]
            ELSE IF IsList(value) THEN Intersects(data, field, value[2])
            ELSE data[field] = value

\* The tool of the given name, called in the current state
CallOf(op, filter, failAt) ==
    CASE op = "search_assets" -> tool_search_assets(firebase_client, collections, filter, failAt)
      [] op = "search_versions" -> tool_search_versions(firebase_client, collections, filter, failAt)
      [] op = "search_comments" -> tool_search_comments(firebase_client, collections, filter, failAt)
      [] op = "search_asset_files" -> tool_search_asset_files(firebase_client, blobs, filter, failAt)

ResultFields(r) == <<r.status, r.error, r.records, r.store_ops>>

KeepItem(item) == ~IsBadDate(item[2])

\* The mapping without its unparsable date bounds
WithoutBadDates(f) == Filter(SelectSeq(f.items, KeepItem))

HasBadDate(f) == \E i \in 1..Len(f.items) : IsBadDate(f.items[i][2])

----------------------------------------------------------------------------
(* C3: for each of the four operations, a filter carrying a '>=' / '<='     *)
(* value with an unparsable date gives the same outcome (records, or the    *)
(* same store failure) as the filter without that key.                      *)

C3_BadDateSameAsAbsent ==
    (Called /\ HasBadDate(request)) =>
        ResultFields(last) =
            ResultFields(CallOf(last.op, WithoutBadDates(request), last.fail_at))

C3_Witness ==
    /\ last.op = "search_asset_files"
    /\ last.status = "ok"
    /\ HasBadDate(request)
    /\ Len(request.items) = 1
    /\ InSeq(Blob3, blobs)
    /\ Len(last.records) = 2

----------------------------------------------------------------------------
(* C5: a field F whose value is a list, of any length, gets exactly one     *)
(* 'array_contains_any' condition with the list as given; a returned        *)
(* document has an F sharing an element with the list, and when the list is *)
(* the only filter every such document is returned.                         *)

C5_ListIsArrayContainsAny ==
    (Called /\ last.op \in CollectionOps /\ last.store_ops # <<>>) =>
        \A i \in 1..Len(request.items) :
            LET field == request.items[i][1]
                value == request.items[i][2]
            IN IsList(value) =>
                /\ Cardinality(ClausesOn(last.store_ops[1], field)) = 1
                /\ \A j \in ClausesOn(last.store_ops[1], field) :
                       last.store_ops[1].clauses[j] =
                           [field |-> field, op |-> "array_contains_any", value |-> value]
                /\ last.status = "ok" =>
                       \A k \in 1..Len(TargetDocs) :
                           /\ Returned(TargetDocs[k]) => Intersects(TargetDocs[k].data, field, value[2])
                           /\ (Len(request.items) = 1 /\ Intersects(TargetDocs[k].data, field, value[2]))
                                  => Returned(TargetDocs[k])

C5_Witness ==
    /\ last.op = "search_assets"
    /\ last.status = "ok"
    /\ request = Filter(<<<<"tags", List(<<"a", "c">>)>>>>)
    /\ collections.assets = <<Doc2, Doc1>>
    /\ Len(last.records) = 1
    /\ last.records[1]["id"] = Doc1.id

----------------------------------------------------------------------------
(* C7: a collection search returns exactly the documents of its collection  *)
(* that satisfy every condition of the filter at once.                      *)

C7_ConjunctionOfClauses ==
    (Called /\ last.op \in CollectionOps /\ last.status = "ok") =>
        /\ \A k \in 1..Len(TargetDocs) :
               Returned(TargetDocs[k]) <=>
                   \A i \in 1..Len(request.items) :
                       ItemHolds(TargetDocs[k].data, request.items[i][1], request.items[i][2])
        /\ \A i \in 1..Len(last.records) :
               \E k \in 1..Len(TargetDocs) : last.records[i]["id"] = TargetDocs[k].id

C7_Witness ==
    /\ last.op = "search_assets"
    /\ last.status = "ok"
    /\ request = Filter(<<<<"contentType", Png>>, <<"uploadedAt", Str(<<"<", "=", "1">>)>>>>)
    /\ collections.assets = <<Doc3, Doc1>>
    /\ Len(last.records) = 1
    /\ last.records[1]["id"] = Doc1.id

----------------------------------------------------------------------------
(* C8: every record of a collection search carries all stored fields of its *)
(* document and an 'id' equal to the document's identifier, also when the   *)
(* stored data has an 'id' field of its own.                                *)

C8_RecordCarriesIdAndFields ==
    (Called /\ last.op \in CollectionOps /\ last.status = "ok") =>
        \A i \in 1..Len(last.records) :
            \E k \in 1..Len(TargetDocs) :
                LET doc == TargetDocs[k]
                    rec == last.records[i]
                IN /\ rec["id"] = doc.id
                   /\ DOMAIN rec = DOMAIN doc.data \cup {"id"}
                   /\ \A f \in DOMAIN doc.data \ {"id"} : rec[f] = doc.data[f]

C8_Witness ==
    /\ last.op = "search_versions"
    /\ last.status = "ok"
    /\ Len(last.records) = 1
    /\ "id" \in DOMAIN Doc1.data
    /\ Doc1.data["id"] # Doc1.id
    /\ last.records[1] = [id |-> Doc1.id, contentType |-> Png, uploadedAt |-> Ts(1),
                          tags |-> List(<<"a">>)]

----------------------------------------------------------------------------
(* C9: with an absent filter or an empty mapping, each of the four          *)
(* operations applies no condition and returns one record per document or   *)
(* item of its target.                                                      *)

C9_NoFilterReturnsAll ==
    (Called /\ ~FiltersTruthy(request) /\ ~last.store_failed) =>
        /\ last.status = "ok"
        /\ last.op \in CollectionOps =>
               /\ last.store_ops = <<[target |-> TargetOf(last.op), clauses |-> <<>>, prefix |-> None]>>
               /\ Len(last.records) = Len(TargetDocs)
               /\ \A i \in 1..Len(TargetDocs) : last.records[i]["id"] = TargetDocs[i].id
        /\ last.op = "search_asset_files" =>
               /\ last.store_ops = <<[target |-> "bucket", clauses |-> <<>>, prefix |-> Str(<<>>)]>>
               /\ Len(last.records) = Len(blobs)
               /\ \A i \in 1..Len(blobs) : last.records[i].name = Str(blobs[i].name)

C9_Witness ==
    /\ last.op = "search_asset_files"
    /\ last.status = "ok"
    /\ request = Filter(<<>>)
    /\ blobs = <<Blob3, Blob2>>
    /\ Len(last.records) = 2

----------------------------------------------------------------------------
(* C10: whenever the filter of search_asset_files carries a contentType     *)
(* key, whatever its value, every returned record has that content type.    *)

C10_ContentTypeDiscards ==
    (Called /\ last.op = "search_asset_files" /\ last.status = "ok"
        /\ HasKey(request, "contentType")) =>
        \A i \in 1..Len(last.records) :
            last.records[i].contentType = Get(request, "contentType", None)

----------------------------------------------------------------------------
(* Helpers of the properties about the bucket scan *)

FilesCalled == Called /\ last.op = "search_asset_files"

\* The blob's record is among the returned ones
ReturnedBlob(blob) == \E i \in 1..Len(last.records) : last.records[i].name = Str(blob.name)

\* The prefix the caller asked for: the value under 'prefix', else the empty string
RequestedPrefix(f) ==
    IF \E i \in 1..Len(f.items) : f.items[i][1] = "prefix"
    THEN f.items[CHOOSE i \in 1..Len(f.items) : f.items[i][1] = "prefix"][2]
    ELSE Str(<<>>)

InPrefix(blob, f) == StartsWith(blob.name, RequestedPrefix(f)[2])

\* The blob has the content type the filter names, if it names one
PassesContentType(blob, f) ==
    HasKey(f, "contentType") => blob.content_type = Get(f, "contentType", None)

\* The blob's creation time lies on the asked side of the bound, the bound included
WithinBound(blob, v) ==
    /\ IsTs(blob.time_created)
    /\ IF StartsWith(v[2], GE)
       THEN blob.time_created[2] >= BoundOf(v)[2]
       ELSE blob.time_created[2] <= BoundOf(v)[2]

NotContentType(item) == item[1] # "contentType"

\* The mapping without its contentType key
WithoutContentType(f) == Filter(SelectSeq(f.items, NotContentType))

\* a is b with some elements left out, the order kept
RECURSIVE SubSeqOf(_, _)
SubSeqOf(a, b) ==
    IF a = <<>> THEN TRUE
    ELSE IF b = <<>> THEN FALSE
    ELSE IF Head(a) = Head(b) THEN SubSeqOf(Tail(a), Tail(b))
    ELSE SubSeqOf(a, Tail(b))

----------------------------------------------------------------------------
(* C11: for search_asset_files with uploadedAt '>=D' or '<=D', D a date, a  *)
(* blob under the prefix that passes the contentType check is returned      *)
(* exactly when its creation time is at or after D (resp. at or before D).  *)

C11_DateBoundInclusive ==
    (FilesCalled /\ ~last.store_failed /\ IsGoodDate(Get(request, "uploadedAt", None))) =>
        \A i \in 1..Len(blobs) :
            (InPrefix(blobs[i], request) /\ PassesContentType(blobs[i], request)) =>
                (ReturnedBlob(blobs[i]) <=> WithinBound(blobs[i], Get(request, "uploadedAt", None)))

----------------------------------------------------------------------------
(* C12: for search_asset_files, the records returned with a contentType key *)
(* in the filter are a sub-collection, in order, of the records returned    *)
(* for the same filter without that key against the same bucket.            *)

C12_ContentTypeMonotonic ==
    (FilesCalled /\ HasKey(request, "contentType")) =>
        SubSeqOf(last.records,
                 CallOf("search_asset_files", WithoutContentType(request), last.fail_at).records)

----------------------------------------------------------------------------
(* C13: every record returned by search_asset_files has exactly the keys    *)
(* name, size, contentType, uploadedAt, downloadUrl, etag and generation,   *)
(* all copied from one listed blob; uploadedAt is the rendering of the      *)
(* blob's creation time (it parses back to it), or null when the blob has   *)
(* no creation time.                                                        *)

C13_FileRecordShape ==
    (FilesCalled /\ last.status = "ok") =>
        \A i \in 1..Len(last.records) :
            LET rec == last.records[i]
            IN /\ DOMAIN rec = {"name", "size", "contentType", "uploadedAt",
                                "downloadUrl", "etag", "generation"}
               /\ \E k \in 1..Len(blobs) :
                      LET b == blobs[k]
                      IN /\ rec.name = Str(b.name)
                         /\ rec.size = b.size
                         /\ rec.contentType = b.content_type
                         /\ rec.downloadUrl = b.public_url
                         /\ rec.etag = b.etag
                         /\ rec.generation = b.generation
                         /\ IF b.time_created = None
                            THEN rec.uploadedAt = None
                            ELSE /\ IsStr(rec.uploadedAt)
                                 /\ parse_datetime(rec.uploadedAt[2]) =
                                        [ok |-> TRUE, value |-> b.time_created]

C13_Witness ==
    /\ FilesCalled
    /\ last.status = "ok"
    /\ blobs = <<Blob3, Blob1>>
    /\ Len(last.records) = 2
    /\ last.records[1].uploadedAt = None
    /\ last.records[2].uploadedAt = Str(<<"1">>)
    /\ last.records[2].generation = 1

----------------------------------------------------------------------------
(* C14: search_asset_files lists the bucket once, with the value under the  *)
(* filter's 'prefix' key, or with the empty prefix when the filter is       *)
(* absent or has no such key; every returned name starts with that prefix,  *)
(* and with the empty prefix and no other condition every blob is returned. *)

C14_ListsByPrefix ==
    FilesCalled =>
        /\ last.store_ops =
               <<[target |-> "bucket", clauses |-> <<>>, prefix |-> RequestedPrefix(request)]>>
        /\ \A i \in 1..Len(last.records) :
               StartsWith(last.records[i].name[2], RequestedPrefix(request)[2])
        /\ (last.status = "ok" /\ RequestedPrefix(request) = Str(<<>>)
               /\ ~HasKey(request, "contentType") /\ ~HasKey(request, "uploadedAt")) =>
               \A k \in 1..Len(blobs) : ReturnedBlob(blobs[k])

C14_Witness ==
    /\ FilesCalled
    /\ last.status = "ok"
    /\ request = Filter(<<<<"prefix", Str(<<"a", "/">>)>>>>)
    /\ blobs = <<Blob3, Blob1>>
    /\ Len(last.records) = 1
    /\ last.records[1].name = Str(<<"a", "/", "x">>)

----------------------------------------------------------------------------
(* C15: for the four operations, a failure of the store reaches the caller  *)
(* as that error with its message, and so does the error of a per-item      *)
(* comparison; no failed call yields a record list; an unparsable date      *)
(* bound alone makes no call fail.                                          *)

----------------------------------------------------------------------------
(* Helpers of the properties about invocations in flight *)

Finished(c) == calls[c].pc \in {"returned", "raised"}

StatusOf(c) == IF calls[c].pc = "returned" THEN "ok" ELSE "error"

\* The documents or blobs the invocation's operation reads
TargetItems(c) ==
    IF calls[c].op = "search_asset_files" THEN blobs ELSE collections[TargetOf(calls[c].op)]

\* What the invocation's filter asks of one item of its target
Wanted(c, item) ==
    IF calls[c].op = "search_asset_files"
    THEN /\ InPrefix(item, calls[c].filter)
         /\ PassesContentType(item, calls[c].filter)
         /\ IsGoodDate(Get(calls[c].filter, "uploadedAt", None)) =>
                WithinBound(item, Get(calls[c].filter, "uploadedAt", None))
    ELSE \A k \in 1..Len(calls[c].filter.items) :
             ItemHolds(item.data, calls[c].filter.items[k][1], calls[c].filter.items[k][2])

\* The record handed back for the item, if any
Handed(c, item) ==
    \E k \in 1..Len(calls[c].returned) :
        IF calls[c].op = "search_asset_files"
        THEN calls[c].returned[k].name = Str(item.name)
        ELSE calls[c].returned[k]["id"] = item.id

----------------------------------------------------------------------------
(* C16: an invocation ends either with the complete record list of its      *)
(* query or with a failure and no records: when the store raises after some *)
(* items were iterated, none of the records built so far is handed back.    *)

C16_AllOrNothing ==
    \A c \in Invocations :
        /\ calls[c].pc = "raised" => (calls[c].returned = <<>> /\ calls[c].error # NoError)
        /\ calls[c].pc = "returned" =>
               /\ calls[c].error = NoError
               /\ \A k \in 1..Len(TargetItems(c)) :
                      Handed(c, TargetItems(c)[k]) <=> Wanted(c, TargetItems(c)[k])
               /\ Len(calls[c].returned) =
                      Cardinality({k \in 1..Len(TargetItems(c)) : Wanted(c, TargetItems(c)[k])})

C16_Witness ==
    \E c \in Invocations :
        /\ calls[c].pc = "raised"
        /\ calls[c].op = "search_assets"
        /\ calls[c].error = StoreError
        /\ calls[c].fail_at = 2
        /\ Len(calls[c].results) = 1
        /\ calls[c].returned = <<>>

----------------------------------------------------------------------------
(* C20: whatever the interleaving of the invocations in flight, a finished  *)
(* invocation has the outcome (success or error, message, record list,      *)
(* store operation) of the same operation run alone with the same filter    *)
(* against the same store behaviour.                                        *)

C20_AsIfAlone ==
    \A c \in Invocations :
        Finished(c) =>
            <<StatusOf(c), calls[c].error, calls[c].returned, calls[c].store_ops>> =
                ResultFields(CallOf(calls[c].op, calls[c].filter, calls[c].fail_at))

C20_Witness ==
    /\ calls[1].pc = "returned"
    /\ calls[1].op = "search_versions"
    /\ Len(calls[1].returned) = 2
    /\ calls[2].pc = "iterating"
    /\ calls[2].op = "search_asset_files"
    /\ calls[2].i = 2
    /\ Len(calls[2].results) = 1

----------------------------------------------------------------------------
(* Helpers of the properties about targets *)

\* The client method of the given name, called on the global client
ClientCallOf(op, filter, failAt) ==
    CASE op = "search_assets" -> search_assets(firebase_client, collections, filter, failAt)
      [] op = "search_versions" -> search_versions(firebase_client, collections, filter, failAt)
      [] op = "search_comments" -> search_comments(firebase_client, collections, filter, failAt)
      [] op = "search_asset_files" -> search_asset_files(firebase_client, blobs, filter, failAt)

Ids(items) == [i \in 1..Len(items) |-> items[i]["id"]]

Names(items) == [i \in 1..Len(items) |-> items[i]["name"]]

BlobNames == [i \in 1..Len(blobs) |-> Str(blobs[i].name)]

----------------------------------------------------------------------------
(* C17: no step of any invocation, successful or failed, with any filter,   *)
(* changes the contents of the three collections or of the bucket.          *)

C17_StoreUnchanged == [][collections' = collections /\ blobs' = blobs]_vars

C17_Witness ==
    /\ Called
    /\ last.op = "search_comments"
    /\ last.status = "ok"
    /\ Len(last.records) = 1
    /\ Len(collections.comments) = 1
    /\ FiltersTruthy(request)

----------------------------------------------------------------------------
(* C18: whatever the filter holds, each operation issues one store          *)
(* operation, on its own target (search_assets on 'assets', search_versions *)
(* on 'versions', search_comments on 'comments', search_asset_files on the  *)
(* bucket), its records come from that target in the target's order, and    *)
(* the tool returns what the client method of the same name returns for the *)
(* same filter.                                                             *)

C18_FixedTargets ==
    Called =>
        /\ Len(last.store_ops) = 1
        /\ last.store_ops[1].target =
               (IF last.op = "search_asset_files" THEN "bucket" ELSE TargetOf(last.op))
        /\ IF last.op = "search_asset_files"
           THEN SubSeqOf(Names(last.records), BlobNames)
           ELSE SubSeqOf(Ids(last.records), Ids(TargetDocs))
        /\ ResultFields(last) = ResultFields(ClientCallOf(last.op, request, last.fail_at))

C18_Witness ==
    /\ last.op = "search_versions"
    /\ last.status = "ok"
    /\ request = Filter(<<<<"contentType", Png>>>>)
    /\ collections.assets = <<Doc1, Doc3>>
    /\ collections.versions = <<Doc3, Doc1>>
    /\ Ids(last.records) = <<Doc3.id, Doc1.id>>

----------------------------------------------------------------------------
(* C19: once initialize_firebase_client has completed successfully, every   *)
(* later call of a public function leaves get_firebase_client returning the *)
(* same client, with its db and bucket handles available and unchanged.     *)

C19_HandlesHeld ==
    [][init_pc = "done" =>
           /\ firebase_client' = firebase_client
           /\ firebase_client'.set
           /\ firebase_client'._db # NoHandle
           /\ firebase_client'._bucket # NoHandle]_vars

----------------------------------------------------------------------------
(* Helpers of the properties about repeated invocations *)

\* What an invocation was asked: operation, filter, and the store's behaviour
AskOf(c) == <<calls[c].op, calls[c].filter, calls[c].fail_at>>

\* What a finished invocation answered
AnswerOf(c) == <<StatusOf(c), calls[c].error, calls[c].returned, calls[c].store_ops>>

SameAskSameAnswer ==
    \A c, d \in Invocations :
        (Finished(c) /\ Finished(d) /\ AskOf(c) = AskOf(d)) => AnswerOf(c) = AnswerOf(d)

\* No step changes the global client or its handles, nor the filter mapping
\* of an invocation that has started
ClientAndFiltersKept ==
    /\ firebase_client' = firebase_client
    /\ \A c \in Invocations : calls[c].pc # "idle" => calls'[c].filter = calls[c].filter

----------------------------------------------------------------------------
(* C21: no step of a search changes the global client, its handles (_app,   *)
(* _db, _bucket) or an invocation's filter mapping, and two invocations of  *)
(* the same operation with the same filter against the unchanged store (and *)
(* the same store behaviour) end with equal outcomes, whatever ran before,  *)
(* between or during them.                                                  *)

----------------------------------------------------------------------------
(* Helpers of the properties about date intervals *)

\* d[k] = v on a mapping: the value under k is replaced, a new key goes last
Put(f, k, v) ==
    IF HasKey(f, k)
    THEN Filter([i \in 1..Len(f.items) |-> IF f.items[i][1] = k THEN <<k, v>> ELSE f.items[i]])
    ELSE Filter(Append(f.items, <<k, v>>))

UpperBound == Str(<<"<", "=", "2">>)

IsLowerBound(v) == IsGoodDate(v) /\ StartsWith(v[2], GE)

IsUpperBound(v) == IsGoodDate(v) /\ StartsWith(v[2], LE)

HasClause(query, field, op) ==
    \E j \in 1..Len(query.clauses) : query.clauses[j].field = field /\ query.clauses[j].op = op

----------------------------------------------------------------------------
(* C22, as claimed: a call whose mapping carries a lower date bound on a     *)
(* field can carry an upper bound on that field as well, and the query then *)
(* holds both conditions, a closed interval on the field.                   *)

C22_ClosedInterval ==
    Compiled =>
        \A i \in 1..Len(request.items) :
            IsLowerBound(request.items[i][2]) =>
                LET field == request.items[i][1]
                    both == _apply_filters(Collection("assets"), Put(request, field, UpperBound))
                IN HasClause(both, field, ">=") /\ HasClause(both, field, "<=")

(* C22, amended: a mapping holds one value per field, so a query never holds *)
(* two conditions on one field; a lower bound and an upper bound can be      *)
(* present together on two different fields, and then both are conditions   *)
(* of the query, in the mapping's order.                                    *)

C22_OneBoundPerField ==
    Compiled =>
        /\ \A field \in CompileKeys : Cardinality(ClausesOn(compiled, field)) <= 1
        /\ \A i, j \in 1..Len(request.items) :
               (i < j /\ IsGoodDate(request.items[i][2]) /\ IsGoodDate(request.items[j][2])) =>
                   /\ request.items[i][1] # request.items[j][1]
                   /\ \E a, b \in 1..Len(compiled.clauses) :
                          /\ a < b
                          /\ compiled.clauses[a].field = request.items[i][1]
                          /\ compiled.clauses[a].value = BoundOf(request.items[i][2])
                          /\ compiled.clauses[b].field = request.items[j][1]
                          /\ compiled.clauses[b].value = BoundOf(request.items[j][2])
        /\ \A i \in 1..Len(request.items) :
               IsLowerBound(request.items[i][2]) =>
                   LET field == request.items[i][1]
                       put == _apply_filters(Collection("assets"), Put(request, field, UpperBound))
                   IN HasClause(put, field, "<=") /\ ~HasClause(put, field, ">=")

C22_Witness ==
    /\ Compiled
    /\ request.items = <<<<"uploadedAt", Str(<<">", "=", "1">>)>>,
                         <<"category", Str(<<"<", "=", "2">>)>>>>
    /\ compiled.clauses = <<[field |-> "uploadedAt", op |-> ">=", value |-> Ts(1)],
                            [field |-> "category", op |-> "<=", value |-> Ts(2)]>>
    /\ Put(request, "uploadedAt", UpperBound).items =
           <<<<"uploadedAt", UpperBound>>, <<"category", Str(<<"<", "=", "2">>)>>>>

----------------------------------------------------------------------------
(* C23: on an initialized client, with a store that answers every fetch with *)
(* an item, the end of a finite result, or a failure, every invocation that *)
(* has started ends, returned or raised (from some point on none is still   *)
(* running), and once ended takes no further step: nothing of it stays      *)
(* suspended or keeps running.                                              *)

C23_EveryInvocationEnds ==
    /\ <>[](\A c \in Invocations : calls[c].pc # "iterating")
    /\ [][\A c \in Invocations : Finished(c) => calls'[c] = calls[c]]_vars

C23_Witness ==
    /\ calls[1].pc = "returned"
    /\ calls[1].op = "search_asset_files"
    /\ calls[1].i = 3
    /\ Len(calls[1].listed) = 2
    /\ calls[2].pc = "raised"
    /\ calls[2].error = StoreError
    /\ calls[2].fail_at = 3

----------------------------------------------------------------------------
(* Helpers of the properties about the sequence of conditions *)

Fields(clauses) == [j \in 1..Len(clauses) |-> clauses[j].field]

Keys(items) == [i \in 1..Len(items) |-> items[i][1]]

----------------------------------------------------------------------------
(* C24: the conditions _apply_filters chains on the query are, in order,    *)
(* one for each field of the mapping in the mapping's iteration order (the  *)
(* fields holding an unparsable date bound left out); no field has more     *)
(* than one condition and a field absent from the mapping has none.         *)

----------------------------------------------------------------------------
(* Helpers of the properties about the kind of a condition *)

\* Kind and operand of the conditions of a query, the field names left out
KindsOf(clauses) == [j \in 1..Len(clauses) |-> <<clauses[j].op, clauses[j].value>>]

\* The conditions a query holds on one field, in order
ClausesSeqOn(query, field) ==
    SelectSeq(query.clauses, LAMBDA clause : clause.field = field)

\* The conditions compiled for the one-entry mapping {field: value}
CompiledAlone(field, value) ==
    _apply_filters(Collection("assets"), Filter(<<<<field, value>>>>)).clauses

----------------------------------------------------------------------------
(* C25: the condition compiled for a field depends on the value alone: for  *)
(* every entry (F, v) of the mapping and every field name G, the condition  *)
(* on F has the kind and operand of the one compiled for (G, v), on G, and   *)
(* a field never gets conditions of two kinds.                              *)

C25_KindFromValueShape ==
    Compiled =>
        \A i \in 1..Len(request.items) :
            LET F == request.items[i][1]
                v == request.items[i][2]
            IN /\ Len(ClausesSeqOn(compiled, F)) <= 1
               /\ \A G \in CompileKeys :
                      /\ KindsOf(CompiledAlone(G, v)) = KindsOf(ClausesSeqOn(compiled, F))
                      /\ \A j \in 1..Len(CompiledAlone(G, v)) : CompiledAlone(G, v)[j].field = G

C25_Witness ==
    /\ Compiled
    /\ request.items = <<<<"tags", Str(<<">", "=", "1">>)>>, <<"uploadedAt", List(<<"a">>)>>>>
    /\ KindsOf(compiled.clauses) = <<<<">=", Ts(1)>>, <<"array_contains_any", List(<<"a">>)>>>>
    /\ KindsOf(CompiledAlone("category", Str(<<">", "=", "1">>))) = <<<<">=", Ts(1)>>>>

----------------------------------------------------------------------------
(* C26: an invocation issues its store operation (the stream of its query,  *)
(* or the listing of the bucket) at most once and never opens it again: the *)
(* iteration only moves forward, and once the invocation has failed it      *)
(* issues no store operation and fetches nothing more.                      *)

C26_NoRetries ==
    /\ [](\A c \in Invocations :
              /\ Len(calls[c].store_ops) <= 1
              /\ calls[c].pc \in {"iterating", "returned"} => Len(calls[c].store_ops) = 1)
    /\ [][\A c \in Invocations :
              /\ calls[c].pc = "iterating" =>
                     /\ calls'[c].store_ops = calls[c].store_ops
                     /\ calls'[c].i >= calls[c].i
              /\ calls[c].pc = "raised" => calls'[c] = calls[c]]_vars

C26_Witness ==
    /\ calls[1].pc = "raised"
    /\ calls[1].error = StoreError
    /\ calls[1].fail_at = 2
    /\ calls[1].i = 2
    /\ Len(calls[1].store_ops) = 1
    /\ calls[2].pc = "returned"
    /\ calls[2].op = calls[1].op
    /\ Len(calls[2].store_ops) = 1

----------------------------------------------------------------------------
(* C27: in every state of the client, initialize() running or failed        *)
(* included, the document-store handle and the bucket handle are both       *)
(* available or both unavailable: a collection search fails with 'Firebase  *)
(* client not initialized' exactly when search_asset_files does.            *)

C27_HandlesTogether ==
    /\ (firebase_client._db = NoHandle) <=> (firebase_client._bucket = NoHandle)
    /\ (tool_search_assets(firebase_client, collections, request, NeverFails).error = NotInitialized)
           <=> (tool_search_asset_files(firebase_client, blobs, request, NeverFails).error
                    = NotInitialized)

----------------------------------------------------------------------------
(* C28: search_asset_files called with uploadedAt '>=D' or '<=D', D a date, *)
(* returns a record list whenever the bucket listing succeeds, whatever the *)
(* listed blobs are, a blob without creation time included.                 *)

C28_GoodBoundNeverFails ==
    (FilesCalled /\ last.fail_at = NeverFails
        /\ IsGoodDate(Get(request, "uploadedAt", None))) =>
        /\ last.status = "ok"
        /\ last.error = NoError

----------------------------------------------------------------------------
(* Helpers of the properties about the order of records *)

\* The documents of the target collection that the filter asks for, in the
\* store's order
AskedDocs ==
    SelectSeq(TargetDocs,
              LAMBDA doc : \A k \in 1..Len(request.items) :
                               ItemHolds(doc.data, request.items[k][1], request.items[k][2]))

\* The blobs under the requested prefix, in the store's order
ListedBlobs == SelectSeq(blobs, LAMBDA blob : InPrefix(blob, request))

NoRepeats(seq) == \A i, j \in 1..Len(seq) : seq[i] = seq[j] => i = j

----------------------------------------------------------------------------
(* C29: a collection search that returns gives one record per document of   *)
(* its query's stream, in stream order; search_asset_files gives at most    *)
(* one record per listed blob, in listing order (a subsequence of the       *)
(* listing).                                                                *)

C29_OneRecordPerItemInOrder ==
    (Called /\ last.status = "ok") =>
        IF last.op = "search_asset_files"
        THEN /\ SubSeqOf(Names(last.records),
                         [i \in 1..Len(ListedBlobs) |-> Str(ListedBlobs[i].name)])
             /\ NoRepeats(Names(last.records))
        ELSE /\ Ids(last.records) = Ids(AskedDocs)
             /\ NoRepeats(Ids(last.records))

C29_Witness ==
    /\ last.op = "search_assets"
    /\ last.status = "ok"
    /\ request = Filter(<<<<"tags", List(<<"a", "c">>)>>>>)
    /\ collections.assets = <<Doc3, Doc1>>
    /\ Ids(last.records) = <<Doc3.id, Doc1.id>>

----------------------------------------------------------------------------
(* Helpers of the properties about the keys the bucket scan reads *)

ScanKeys == {"prefix", "contentType", "uploadedAt"}

\* Keys a caller may add that the scan does not document
OtherKeys == {"tags", "category"}

\* The mapping restricted to the given keys
OnlyKeys(f, keys) ==
    [present |-> f.present, items |-> SelectSeq(f.items, LAMBDA item : item[1] \in keys)]

FilesResult(f) == ResultFields(CallOf("search_asset_files", f, last.fail_at))

----------------------------------------------------------------------------
(* C30: the outcome of search_asset_files depends on the keys prefix,       *)
(* contentType and uploadedAt only: adding any other key with any value to  *)
(* the filter, or dropping the other keys it has, leaves the outcome as it  *)
(* is; and an uploadedAt value that is not a string starting with '>=' or   *)
(* '<=' gives the outcome of the filter without uploadedAt.                 *)

C30_ReadsThreeKeys ==
    FilesCalled =>
        /\ ResultFields(last) = FilesResult(OnlyKeys(request, ScanKeys))
        /\ \A k \in OtherKeys : \A v \in CompileValues :
               ResultFields(last) = FilesResult(Put(request, k, v))
        /\ (HasKey(request, "uploadedAt") /\ ~IsDateBound(Get(request, "uploadedAt", None))) =>
               ResultFields(last) = FilesResult(OnlyKeys(request, {"prefix", "contentType"}))

C30_Witness ==
    /\ FilesCalled
    /\ last.status = "ok"
    /\ request = Filter(<<<<"uploadedAt", Str(<<"1">>)>>, <<"tags", List(<<"a", "c">>)>>>>)
    /\ blobs = <<Blob2, Blob3>>
    /\ Names(last.records) = BlobNames

====
